---- MODULE Spec2Model ----
(***************************************************************************)
(* Model of the visual-system-simulator core:                              *)
(*   - the driver loop of vss-desktop/src/main.rs,                         *)
(*   - the Lens pass of vss/src/passes/lens/mod.rs (update_io,             *)
(*     update_params, render),                                             *)
(*   - the region updates of vss/src/pipeline/texture.rs.                  *)
(*                                                                         *)
(* Floating point values are modelled as exact rationals n/d in lowest     *)
(* terms, with d = 0 standing for +infinity (n = 1) and -infinity          *)
(* (n = -1).  The f32 roundings of the source are not modelled; no         *)
(* property below depends on a margin smaller than 1/1000.                 *)
(***************************************************************************)
EXTENDS Integers, Sequences, FiniteSets, TLC

VARIABLES
    pc,          \* position of main: "while", "begin_frame", "update_io",
                 \* "update_params", "render", "end_frame", "exited", "panicked"
    done,        \* main's local `done`
    device,      \* what the device hands to the pipeline for the current frame
    pso_data,    \* Lens.pso_data
    last_params, \* the ValueMap update_params received in the frame in flight
                 \* (the empty map until the frame reaches update_params)
    drawn,       \* whether Lens.render has issued its draw in the current frame
    tex_rgba,    \* texels of a 4-channel texture (update_texture's target)
    tex_r8,      \* texels of a 1-channel texture (update_single_channel_texture)
    tex_call,    \* the latest region update: which function, its arguments,
                 \* whether they met the preconditions, and how it ended
    tex_pc       \* "running" or "panicked" for the texture client

vars == <<pc, done, device, pso_data, last_params, drawn,
          tex_rgba, tex_r8, tex_call, tex_pc>>

driver_vars == <<pc, done, device, pso_data, last_params, drawn>>

texture_vars == <<tex_rgba, tex_r8, tex_call, tex_pc>>

----------------------------------------------------------------------------
(* f32 arithmetic as exact rationals *)

Abs(x) == IF x < 0 THEN -x ELSE x

Sign(x) == IF x < 0 THEN -1 ELSE IF x > 0 THEN 1 ELSE 0

RECURSIVE Gcd(_, _)
Gcd(a, b) == IF b = 0 THEN a ELSE Gcd(b, a % b)

\* n/d in lowest terms with a positive denominator; x/0 is +-infinity
Norm(n, d) ==
    IF d = 0 THEN [n |-> Sign(n), d |-> 0]
    ELSE LET g == Gcd(Abs(n), Abs(d))
         IN  [n |-> (Sign(d) * n) \div g, d |-> Abs(d) \div g]

Rat(n, d) == Norm(n, d)

Num(n) == [n |-> n, d |-> 1]

Zero == Num(0)

One == Num(1)

Two == Num(2)

Inf == [n |-> 1, d |-> 0]        \* f32::INFINITY

Add(a, b) == Norm(a.n * b.d + b.n * a.d, a.d * b.d)

Sub(a, b) == Norm(a.n * b.d - b.n * a.d, a.d * b.d)

Mul(a, b) == Norm(a.n * b.n, a.d * b.d)

Div(a, b) == Norm(a.n * b.d, a.d * b.n)

Leq(a, b) ==
    IF a.d = 0 /\ b.d = 0 THEN a.n <= b.n ELSE a.n * b.d <= b.n * a.d

Lt(a, b) == ~Leq(b, a)

\* f32::min and f32::max
Min(a, b) == IF Leq(a, b) THEN a ELSE b

Max(a, b) == IF Leq(a, b) THEN b ELSE a

----------------------------------------------------------------------------
(* ValueMap: a map from parameter names to Value::Bool / Value::Number *)

Bool(b) == [t |-> "Bool", b |-> b, v |-> Zero]

Number(r) == [t |-> "Number", b |-> FALSE, v |-> r]

Missing == [t |-> "Missing", b |-> FALSE, v |-> Zero]

\* bounds of the dial values the ValueMap supplier is let to send
MaxNearStep == 2

MaxMnhStep == 4

\* presbyopia_near_point dials: 0, 50, 100 (in range) and 120 (out of range)
NearPointDials == {Num(50 * k) : k \in 0..MaxNearStep} \cup {Num(120)}

\* myopiahyperopia_mnh dials: 0, 25 .. 100, the neighbours of 50, and
\* out-of-range values: -10, 370/3 (dioptres = 4.4 exactly) and 130
MnhDials ==
    {Num(25 * k) : k \in 0..MaxMnhStep}
        \cup {Num(49), Num(51), Num(-10), Rat(370, 3), Num(130)}

ToggleValues == {Missing, Bool(FALSE), Bool(TRUE)}

Keys == {"presbyopia_onoff", "presbyopia_near_point",
         "myopiahyperopia_onoff", "myopiahyperopia_mnh", "unrecognized_key"}

\* the map holding exactly the entries that are not Missing
MkMap(pon, pnp, mon, mnh, other) ==
    LET full == [k \in Keys |->
                    CASE k = "presbyopia_onoff" -> pon
                      [] k = "presbyopia_near_point" -> pnp
                      [] k = "myopiahyperopia_onoff" -> mon
                      [] k = "myopiahyperopia_mnh" -> mnh
                      [] OTHER -> other]
    IN  [k \in {x \in Keys : full[x].t # "Missing"} |-> full[k]]

ValueMaps ==
    {MkMap(pon, pnp, mon, mnh, other) :
        pon \in ToggleValues,
        pnp \in {Missing, Bool(TRUE)} \cup {Number(r) : r \in NearPointDials},
        mon \in ToggleValues,
        mnh \in {Missing, Bool(TRUE)} \cup {Number(r) : r \in MnhDials},
        other \in {Missing, Number(Num(7))}}

EmptyMap == MkMap(Missing, Missing, Missing, Missing, Missing)

\* faulty variant of IsBoolTrue: any Bool switches the block on
IsAnyBool(params, key) ==
    key \in DOMAIN params /\ params[key].t = "Bool"

\* `if let Some(Value::Bool(true)) = params.get(key)`
IsBoolTrue(params, key) ==
    key \in DOMAIN params /\ params[key].t = "Bool" /\ params[key].b

\* `if let Some(Value::Number(_)) = params.get(key)`
IsNumber(params, key) ==
    key \in DOMAIN params /\ params[key].t = "Number"

----------------------------------------------------------------------------
(* Lens *)

\* DIOPTRES_SCALING = 0.332763369417523, to seven decimals
DIOPTRES_SCALING == Rat(3327634, 10000000)

\* Lens::new
LensNew ==
    [u_stereo |-> 0,
     u_active |-> 0,
     u_samplecount |-> 4,
     u_depth_min |-> Num(200),
     u_depth_max |-> Num(5000),
     u_near_point |-> Zero,
     u_far_point |-> Inf,
     u_near_vision_factor |-> Zero,
     u_far_vision_factor |-> Zero,
     s_color |-> <<"src0", "sampler0">>,
     s_depth |-> <<"srv0", "sampler0">>,
     s_normal |-> <<"normal_view", "sampler0">>,
     s_cornea |-> <<"cornea_view", "sampler0">>,
     rt_color |-> "dst0"]

\* the five optical uniforms of a pso_data
Uniforms(pd) ==
    [u_active |-> pd.u_active,
     u_near_point |-> pd.u_near_point,
     u_far_point |-> pd.u_far_point,
     u_near_vision_factor |-> pd.u_near_vision_factor,
     u_far_vision_factor |-> pd.u_far_vision_factor]

\* faulty variant of ResetDefaults: the far point is left as it was
ResetDefaultsNoFarPoint(pd) ==
    [pd EXCEPT !.u_near_point = Zero,
               !.u_near_vision_factor = Zero,
               !.u_far_vision_factor = Zero,
               !.u_active = 0]

\* update_params, "default values"
ResetDefaults(pd) ==
    [pd EXCEPT !.u_near_point = Zero,
               !.u_far_point = Inf,
               !.u_near_vision_factor = Zero,
               !.u_far_vision_factor = Zero,
               !.u_active = 0]

\* faulty variant of Presbyopia: the dial is not scaled to 0 - 1000
PresbyopiaUnscaled(pd, near_point) ==
    [pd EXCEPT !.u_active = 1,
               !.u_near_point = near_point,
               !.u_near_vision_factor = One]

\* update_params, the presbyopia block: near point is a parameter between
\* 0 and 100 that is to be scaled to 0 - 1000
Presbyopia(pd, near_point) ==
    [pd EXCEPT !.u_active = 1,
               !.u_near_point = Mul(near_point, Num(10)),
               !.u_near_vision_factor = One]

\* faulty variant of Dioptres: a range of -4D to 4D
DioptresTimesFour(mnh) == Mul(Sub(Div(mnh, Num(50)), One), Num(4))

\* mnh represents a range of -3D to 3D
Dioptres(mnh) == Mul(Sub(Div(mnh, Num(50)), One), Num(3))

\* faulty variant of Myopia: u_near_point is not clamped to u_far_point
MyopiaNoClamp(pd, dioptres) ==
    LET far_point == Div(Num(-1000), dioptres)
        vision_factor == Sub(One, Mul(dioptres, DIOPTRES_SCALING))
    IN  [pd EXCEPT !.u_far_point = far_point,
                   !.u_far_vision_factor = Max(pd.u_far_vision_factor, vision_factor)]

\* faulty variant of Myopia: the far point is 1000 / dioptres
MyopiaWrongSign(pd, dioptres) ==
    LET far_point == Div(Num(1000), dioptres)
        vision_factor == Sub(One, Mul(dioptres, DIOPTRES_SCALING))
    IN  [pd EXCEPT !.u_far_point = far_point,
                   !.u_near_point = Min(pd.u_near_point, far_point),
                   !.u_far_vision_factor = Max(pd.u_far_vision_factor, vision_factor)]

\* update_params, the `dioptres < 0.0` branch: u_near_point should not be
\* farther than u_far_point
Myopia(pd, dioptres) ==
    LET far_point == Div(Num(-1000), dioptres)
        vision_factor == Sub(One, Mul(dioptres, DIOPTRES_SCALING))
    IN  [pd EXCEPT !.u_far_point = far_point,
                   !.u_near_point = Min(pd.u_near_point, far_point),
                   !.u_far_vision_factor = Max(pd.u_far_vision_factor, vision_factor)]

\* faulty variant of Hyperopia: the presbyopia contribution is overwritten
HyperopiaOverwrite(pd, dioptres) ==
    LET hyperopia_near_point == Div(Num(1000), Sub(Rat(44, 10), dioptres))
        vision_factor == Add(One, Mul(dioptres, DIOPTRES_SCALING))
    IN  [pd EXCEPT !.u_near_point = hyperopia_near_point,
                   !.u_near_vision_factor = vision_factor]

\* update_params, the `dioptres > 0.0` branch
Hyperopia(pd, dioptres) ==
    LET hyperopia_near_point == Div(Num(1000), Sub(Rat(44, 10), dioptres))
        vision_factor == Add(One, Mul(dioptres, DIOPTRES_SCALING))
    IN  [pd EXCEPT !.u_near_point = Max(pd.u_near_point, hyperopia_near_point),
                   !.u_near_vision_factor =
                        Max(pd.u_near_vision_factor, vision_factor)]

\* update_params, the myopiahyperopia block
MyopiaHyperopia(pd, mnh) ==
    LET active == [pd EXCEPT !.u_active = 1]
        dioptres == Dioptres(mnh)
    IN  IF Lt(dioptres, Zero) THEN Myopia(active, dioptres)
        ELSE IF Lt(Zero, dioptres) THEN Hyperopia(active, dioptres)
        ELSE active

\* Lens::update_params
UpdateParams(pd, params) ==
    LET s0 == ResetDefaults(pd)
        s1 == IF IsBoolTrue(params, "presbyopia_onoff")
                 /\ IsNumber(params, "presbyopia_near_point")
              THEN Presbyopia(s0, params["presbyopia_near_point"].v)
              ELSE s0
    IN  IF IsBoolTrue(params, "myopiahyperopia_onoff")
           /\ IsNumber(params, "myopiahyperopia_mnh")
        THEN MyopiaHyperopia(s1, params["myopiahyperopia_mnh"].v)
        ELSE s1

\* DeviceSource
DeviceSources ==
    {[kind |-> "Rgb", rgba8 |-> "frame_rgba", d |-> "none"],
     [kind |-> "RgbDepth", rgba8 |-> "frame_rgba", d |-> "frame_d"],
     [kind |-> "Yuv", rgba8 |-> "none", d |-> "none"]}

\* faulty variant of UpdateIo: a Yuv source is skipped without a panic
UpdateIoSkipsYuv(pd, target, source, source_sampler, stereo) ==
    LET s0 == [pd EXCEPT !.u_stereo = IF stereo THEN 1 ELSE 0,
                         !.rt_color = target]
    IN  CASE source.kind = "Rgb" ->
                [pso |-> [s0 EXCEPT !.s_color = <<source.rgba8, source_sampler>>],
                 panic |-> FALSE]
          [] source.kind = "RgbDepth" ->
                [pso |-> [s0 EXCEPT !.s_color = <<source.rgba8, source_sampler>>,
                                    !.s_depth = <<source.d, source_sampler>>],
                 panic |-> FALSE]
          [] OTHER -> [pso |-> s0, panic |-> FALSE]

\* Lens::update_io: the new pso_data and whether the call panicked
UpdateIo(pd, target, source, source_sampler, stereo) ==
    LET s0 == [pd EXCEPT !.u_stereo = IF stereo THEN 1 ELSE 0,
                         !.rt_color = target]
    IN  CASE source.kind = "Rgb" ->
                [pso |-> [s0 EXCEPT !.s_color = <<source.rgba8, source_sampler>>],
                 panic |-> FALSE]
          [] source.kind = "RgbDepth" ->
                [pso |-> [s0 EXCEPT !.s_color = <<source.rgba8, source_sampler>>,
                                    !.s_depth = <<source.d, source_sampler>>],
                 panic |-> FALSE]
          [] source.kind = "Yuv" -> [pso |-> s0, panic |-> TRUE]

----------------------------------------------------------------------------
(* The driver: main's loop around device and pipeline *)

\* faulty variant of LoopCond: the loop never looks at done
LoopCondIgnoresDone(d) == TRUE

\* `while !done`
LoopCond(d) == ~d

\* Pipeline::render: each pass runs update_io, update_params, render in
\* this order, then the frame is presented
PipelineRender(step) ==
    CASE step = "begin_frame" -> "update_io"
      [] step = "update_io" -> "update_params"
      [] step = "update_params" -> "render"
      [] step = "render" -> "end_frame"

WhileTest ==
    /\ pc = "while"
    /\ pc' = IF LoopCond(done) THEN "begin_frame" ELSE "exited"
    /\ UNCHANGED <<done, device, pso_data, last_params, drawn, texture_vars>>

\* device.begin_frame(): the device prepares the frame's source and target
BeginFrame ==
    /\ pc = "begin_frame"
    /\ \E source \in DeviceSources, stereo \in BOOLEAN :
          device' = [source |-> source, source_sampler |-> "device_sampler",
                     target |-> "screen", stereo |-> stereo]
    /\ drawn' = FALSE
    /\ pc' = PipelineRender("begin_frame")
    /\ UNCHANGED <<done, pso_data, last_params, texture_vars>>

LensUpdateIo ==
    /\ pc = "update_io"
    /\ LET r == UpdateIo(pso_data, device.target, device.source,
                         device.source_sampler, device.stereo)
       IN  /\ pso_data' = r.pso
           /\ pc' = IF r.panic THEN "panicked" ELSE PipelineRender("update_io")
    /\ UNCHANGED <<done, device, last_params, drawn, texture_vars>>

LensUpdateParams ==
    /\ pc = "update_params"
    /\ \E params \in ValueMaps :
          /\ pso_data' = UpdateParams(pso_data, params)
          /\ last_params' = params
    /\ pc' = PipelineRender("update_params")
    /\ UNCHANGED <<done, device, drawn, texture_vars>>

\* Lens::render: encoder.draw with the current pso_data
LensRender ==
    /\ pc = "render"
    /\ drawn' = TRUE
    /\ pc' = PipelineRender("render")
    /\ UNCHANGED <<done, device, pso_data, last_params, texture_vars>>

\* device.end_frame(&mut done)
EndFrame ==
    /\ pc = "end_frame"
    /\ \E d \in BOOLEAN : done' = d
    /\ pc' = "while"
    /\ last_params' = EmptyMap
    /\ UNCHANGED <<device, pso_data, drawn, texture_vars>>

DriverInit ==
    /\ pc = "while"
    /\ done = FALSE
    /\ device = [source |-> CHOOSE s \in DeviceSources : s.kind = "Rgb",
                 source_sampler |-> "device_sampler",
                 target |-> "screen", stereo |-> FALSE]
    /\ pso_data = LensNew
    /\ last_params = EmptyMap
    /\ drawn = FALSE

----------------------------------------------------------------------------
(* Region updates of pipeline/texture.rs *)

\* bounds: the textures are TexW x TexH texels, bytes take values 0..MaxFill
TexW == 2

TexH == 1

MaxFill == 1

Coords == (0..(TexW - 1)) \X (0..(TexH - 1))

\* bytes per texel of RgbSurfaceFormat (R8_G8_B8_A8) and of R8
RgbaBytes == 4

R8Bytes == 1

\* byte slices of up to one byte more than a whole texture of `unit` bytes
\* per texel
RawData(unit) ==
    UNION {[1..len -> 1..MaxFill] : len \in 0..(unit * TexW * TexH + 1)}

\* gfx::memory::cast_slice(&raw_data): reinterprets the bytes as texels of
\* `unit` bytes each and asserts that no byte is left over
CastSlice(raw_data, unit) ==
    [panic |-> Len(raw_data) % unit # 0,
     data |-> [i \in 1..(Len(raw_data) \div unit) |->
                  SubSeq(raw_data, (i - 1) * unit + 1, i * unit)]]

\* ImageInfoCommon built from size and offset
ImgInfo(size, offset) ==
    [xoffset |-> offset[1], yoffset |-> offset[2], zoffset |-> 0,
     width |-> size[1], height |-> size[2], depth |-> 0, mipmap |-> 0]

MaxOf(a, b) == IF a >= b THEN a ELSE b

\* encoder.update_texture(texture, None, img_info, data) of the gfx crate:
\* the Result it returns and the texture's texels afterwards.  Empty data
\* is Ok and writes nothing; a texel count other than
\* max(1, width) * max(1, height) * max(1, depth), or a rectangle that is
\* not inside the texture, is an Err and writes nothing.
EncoderUpdateTexture(tex, img, data) ==
    IF Len(data) = 0 THEN [result |-> "Ok", tex |-> tex]
    ELSE IF MaxOf(1, img.width) * MaxOf(1, img.height) * MaxOf(1, img.depth)
                # Len(data)
    THEN [result |-> "Err(UnitCountMismatch)", tex |-> tex]
    ELSE IF ~(/\ img.xoffset + img.width <= TexW
              /\ img.yoffset + img.height <= TexH
              /\ img.zoffset + img.depth <= 1)
    THEN [result |-> "Err(OutOfBounds)", tex |-> tex]
    ELSE [result |-> "Ok",
          tex |-> [c \in Coords |->
                    IF /\ c[1] >= img.xoffset /\ c[1] < img.xoffset + img.width
                       /\ c[2] >= img.yoffset /\ c[2] < img.yoffset + img.height
                    THEN data[(c[2] - img.yoffset) * img.width
                                + (c[1] - img.xoffset) + 1]
                    ELSE tex[c]]]

\* update_texture / update_single_channel_texture: the Result of the
\* encoder is bound to `_msg` and dropped; the only panic is cast_slice's
UpdateRegion(tex, unit, size, offset, raw_data) ==
    LET cast == CastSlice(raw_data, unit)
        msg == EncoderUpdateTexture(tex, ImgInfo(size, offset), cast.data)
    IN  IF cast.panic
        THEN [outcome |-> "panic", msg |-> "none", tex |-> tex]
        ELSE [outcome |-> "returned", msg |-> msg.result, tex |-> msg.tex]

Sizes == (0..TexW) \X (0..TexH)

\* the caller's precondition: the rectangle lies within the texture
InBounds(size, offset) ==
    offset[1] + size[1] <= TexW /\ offset[2] + size[2] <= TexH

\* the caller's precondition: one texel of `unit` bytes per texel of the
\* rectangle
BytesMatch(size, unit, raw_data) == Len(raw_data) = size[1] * size[2] * unit

\* offsets of texels of the texture; with a size of up to the whole texture
\* the rectangle can reach past the right or lower edge
Offsets == Coords

UpdateTexture ==
    /\ tex_pc = "running"
    /\ \E size \in Sizes, offset \in Offsets, raw_data \in RawData(RgbaBytes) :
          LET r == UpdateRegion(tex_rgba, RgbaBytes, size, offset, raw_data)
          IN  /\ tex_rgba' = r.tex
              /\ tex_call' = [fn |-> "update_texture",
                              size |-> size, offset |-> offset,
                              bytes |-> Len(raw_data),
                              in_bounds |-> InBounds(size, offset),
                              bytes_match |->
                                  BytesMatch(size, RgbaBytes, raw_data),
                              outcome |-> r.outcome, msg |-> r.msg]
              /\ tex_pc' = IF r.outcome = "panic" THEN "panicked" ELSE "running"
    /\ UNCHANGED <<tex_r8, driver_vars>>

UpdateSingleChannelTexture ==
    /\ tex_pc = "running"
    /\ \E size \in Sizes, offset \in Offsets, raw_data \in RawData(R8Bytes) :
          LET r == UpdateRegion(tex_r8, R8Bytes, size, offset, raw_data)
          IN  /\ tex_r8' = r.tex
              /\ tex_call' = [fn |-> "update_single_channel_texture",
                              size |-> size, offset |-> offset,
                              bytes |-> Len(raw_data),
                              in_bounds |-> InBounds(size, offset),
                              bytes_match |->
                                  BytesMatch(size, R8Bytes, raw_data),
                              outcome |-> r.outcome, msg |-> r.msg]
              /\ tex_pc' = IF r.outcome = "panic" THEN "panicked" ELSE "running"
    /\ UNCHANGED <<tex_rgba, driver_vars>>

\* textures as load_texture_from_bytes / load_single_channel_texture_from_bytes
\* leave them, here with every byte 0
TextureInit ==
    /\ tex_rgba = [c \in Coords |-> <<0, 0, 0, 0>>]
    /\ tex_r8 = [c \in Coords |-> <<0>>]
    /\ tex_call = [fn |-> "none", size |-> <<0, 0>>, offset |-> <<0, 0>>,
                   bytes |-> 0, in_bounds |-> TRUE, bytes_match |-> TRUE,
                   outcome |-> "none", msg |-> "none"]
    /\ tex_pc = "running"

----------------------------------------------------------------------------

Init == DriverInit /\ TextureInit

Next ==
    \/ WhileTest
    \/ BeginFrame
    \/ LensUpdateIo
    \/ LensUpdateParams
    \/ LensRender
    \/ EndFrame

Spec == Init /\ [][Next]_vars

NextTexture ==
    \/ UpdateTexture
    \/ UpdateSingleChannelTexture

SpecTexture == Init /\ [][NextTexture]_vars

----------------------------------------------------------------------------
(* Properties *)

InLoop(p) == p \in {"while", "begin_frame", "update_io", "update_params",
                    "render", "end_frame"}

\* update_params has run in the frame in flight, with last_params
AfterParams == pc \in {"render", "end_frame"}

\* the toggle is present and true; false or missing
ToggleOn(params, key) == key \in DOMAIN params /\ params[key] = Bool(TRUE)

ToggleOff(params, key) ==
    key \notin DOMAIN params \/ params[key] = Bool(FALSE)

\* the dial is present and a number
DialGiven(params, key) ==
    key \in DOMAIN params /\ params[key].t = "Number"

PresbyopiaActive(params) ==
    ToggleOn(params, "presbyopia_onoff")
        /\ DialGiven(params, "presbyopia_near_point")

MnhActive(params) ==
    ToggleOn(params, "myopiahyperopia_onoff")
        /\ DialGiven(params, "myopiahyperopia_mnh")

InDialRange(r) == Leq(Zero, r) /\ Leq(r, Num(100))

\* the presbyopia contribution: near point and near vision factor
PriorNearPoint(params) ==
    IF PresbyopiaActive(params)
    THEN Mul(Num(10), params["presbyopia_near_point"].v)
    ELSE Zero

PriorNearFactor(params) == IF PresbyopiaActive(params) THEN One ELSE Zero

\* d = (m/50 - 1) * 3
DioptresOf(params) ==
    Mul(Sub(Div(params["myopiahyperopia_mnh"].v, Num(50)), One), Num(3))

\* C1 as stated: the loop is left only from the loop test with done set;
\* every other step stays inside the loop, a frame is started only with
\* done false, and only end_frame writes done.
C1_OnlyExitIsDone ==
    [][/\ (InLoop(pc) /\ ~InLoop(pc')) =>
              (pc = "while" /\ done /\ pc' = "exited")
       /\ (pc = "while" /\ done) => pc' = "exited"
       /\ (pc = "while" /\ ~done) => pc' = "begin_frame"
       /\ (done' # done) => pc = "end_frame"]_vars

\* C1 amended: the loop is left either from the loop test with done set, or
\* by the panic that Lens::update_io raises on a Yuv source, between
\* begin_frame and end_frame; every other step stays inside the loop, the
\* loop test exits exactly when done is set, and only end_frame writes done.
C1_ExitIsDoneOrPanic ==
    [][/\ (InLoop(pc) /\ ~InLoop(pc')) =>
              \/ (pc = "while" /\ done /\ pc' = "exited")
              \/ (pc = "update_io" /\ device.source.kind = "Yuv"
                    /\ pc' = "panicked")
       /\ (pc = "while" /\ done) => pc' = "exited"
       /\ (pc = "while" /\ ~done) => pc' = "begin_frame"
       /\ (done' # done) => pc = "end_frame"]_vars

\* the loop has run a whole frame and then exited on done
C1_Witness == pc = "exited" /\ done /\ drawn

DialsInRange(params) ==
    \A k \in {"presbyopia_near_point", "myopiahyperopia_mnh"} :
        DialGiven(params, k) => InDialRange(params[k].v)

\* C3: with the dials within 0..100 both vision factors lie in [0, 2].
C3_FactorsInRange ==
    (AfterParams /\ DialsInRange(last_params)) =>
        /\ Leq(Zero, pso_data.u_near_vision_factor)
        /\ Leq(pso_data.u_near_vision_factor, Two)
        /\ Leq(Zero, pso_data.u_far_vision_factor)
        /\ Leq(pso_data.u_far_vision_factor, Two)

\* the extreme dial mnh = 100: near vision factor 1 + 3K, above 1.99
C3_Witness ==
    /\ AfterParams
    /\ DialsInRange(last_params)
    /\ MnhActive(last_params)
    /\ last_params["myopiahyperopia_mnh"].v = Num(100)
    /\ Lt(Rat(199, 100), pso_data.u_near_vision_factor)

\* C4: with both toggles false or missing, update_params leaves exactly the
\* pass-through uniforms.
C4_TogglesOffGiveDefaults ==
    (/\ AfterParams
     /\ ToggleOff(last_params, "presbyopia_onoff")
     /\ ToggleOff(last_params, "myopiahyperopia_onoff")) =>
        Uniforms(pso_data) =
            [u_active |-> 0, u_near_point |-> Zero, u_far_point |-> Inf,
             u_near_vision_factor |-> Zero, u_far_vision_factor |-> Zero]

\* one toggle false, the other missing, both dials and an unrecognized key
\* present
C4_Witness ==
    /\ AfterParams
    /\ "presbyopia_onoff" \in DOMAIN last_params
    /\ ~last_params["presbyopia_onoff"].b
    /\ "myopiahyperopia_onoff" \notin DOMAIN last_params
    /\ DialGiven(last_params, "presbyopia_near_point")
    /\ DialGiven(last_params, "myopiahyperopia_mnh")
    /\ "unrecognized_key" \in DOMAIN last_params
    /\ pso_data.u_active = 0

C5_Pre ==
    /\ AfterParams
    /\ PresbyopiaActive(last_params)
    /\ InDialRange(last_params["presbyopia_near_point"].v)

\* C5 as stated: presbyopia on with near point p gives u_active = 1,
\* u_near_point = 10 p and u_near_vision_factor = 1, whatever else the map
\* holds.
C5_PresbyopiaAlone ==
    C5_Pre =>
        /\ pso_data.u_active = 1
        /\ pso_data.u_near_point = PriorNearPoint(last_params)
        /\ pso_data.u_near_vision_factor = One

\* C5 amended: presbyopia on with near point p gives u_active = 1; the near
\* point is 10 p and the near factor 1 when the myopia/hyperopia block does
\* not apply or d = 0; under myopia the near point is min(10 p, far point)
\* and the factor 1; under hyperopia the near point is
\* max(10 p, 1000 / (4.4 - d)) and the factor max(1, 1 + d K).
C5_PresbyopiaCombined ==
    C5_Pre =>
        /\ pso_data.u_active = 1
        /\ IF ~MnhActive(last_params) \/ DioptresOf(last_params) = Zero
           THEN /\ pso_data.u_near_point = PriorNearPoint(last_params)
                /\ pso_data.u_near_vision_factor = One
           ELSE IF Lt(DioptresOf(last_params), Zero)
           THEN /\ pso_data.u_near_point =
                     Min(PriorNearPoint(last_params), pso_data.u_far_point)
                /\ pso_data.u_near_vision_factor = One
           ELSE /\ pso_data.u_near_point =
                     Max(PriorNearPoint(last_params),
                         Div(Num(1000),
                             Sub(Rat(44, 10), DioptresOf(last_params))))
                /\ pso_data.u_near_vision_factor =
                     Max(One, Add(One, Mul(DioptresOf(last_params),
                                           DIOPTRES_SCALING)))

\* presbyopia at 50 together with hyperopia at 100: near point 1000/1.4
C5_Witness ==
    /\ C5_Pre
    /\ MnhActive(last_params)
    /\ last_params["presbyopia_near_point"].v = Num(50)
    /\ last_params["myopiahyperopia_mnh"].v = Num(100)
    /\ pso_data.u_near_point = Rat(10000, 14)

\* C6: myopia (0 <= m < 50): d < 0, u_active = 1, u_far_point = -1000 / d,
\* u_near_point = min(presbyopia near point or 0, u_far_point),
\* u_far_vision_factor = 1 - d K, u_near_vision_factor the presbyopia
\* contribution.
C6_Myopia ==
    (/\ AfterParams
     /\ MnhActive(last_params)
     /\ Leq(Zero, last_params["myopiahyperopia_mnh"].v)
     /\ Lt(last_params["myopiahyperopia_mnh"].v, Num(50))) =>
        LET d == DioptresOf(last_params)
        IN  /\ Lt(d, Zero)
            /\ pso_data.u_active = 1
            /\ pso_data.u_far_point = Div(Num(-1000), d)
            /\ pso_data.u_near_point =
                 Min(PriorNearPoint(last_params), Div(Num(-1000), d))
            /\ pso_data.u_far_vision_factor =
                 Sub(One, Mul(d, DIOPTRES_SCALING))
            /\ pso_data.u_near_vision_factor = PriorNearFactor(last_params)

\* mnh = 25 (d = -1.5) with presbyopia at 100: far point 2000/3 clamps
C6_Witness ==
    /\ AfterParams
    /\ MnhActive(last_params) /\ PresbyopiaActive(last_params)
    /\ last_params["myopiahyperopia_mnh"].v = Num(25)
    /\ last_params["presbyopia_near_point"].v = Num(100)
    /\ pso_data.u_far_point = Rat(2000, 3)
    /\ pso_data.u_near_point = Rat(2000, 3)

\* C7: hyperopia (50 < m <= 100): d > 0, u_active = 1,
\* u_near_point = max(prior near point, 1000 / (4.4 - d)),
\* u_near_vision_factor = max(prior factor, 1 + d K), u_far_point = +inf and
\* u_far_vision_factor = 0; with m = 50 only u_active is set.
C7_Hyperopia ==
    (/\ AfterParams
     /\ MnhActive(last_params)
     /\ Leq(Num(50), last_params["myopiahyperopia_mnh"].v)
     /\ Leq(last_params["myopiahyperopia_mnh"].v, Num(100))) =>
        LET d == DioptresOf(last_params)
        IN  /\ pso_data.u_active = 1
            /\ pso_data.u_far_point = Inf
            /\ pso_data.u_far_vision_factor = Zero
            /\ IF last_params["myopiahyperopia_mnh"].v = Num(50)
               THEN /\ d = Zero
                    /\ pso_data.u_near_point = PriorNearPoint(last_params)
                    /\ pso_data.u_near_vision_factor =
                         PriorNearFactor(last_params)
               ELSE /\ Lt(Zero, d)
                    /\ pso_data.u_near_point =
                         Max(PriorNearPoint(last_params),
                             Div(Num(1000), Sub(Rat(44, 10), d)))
                    /\ pso_data.u_near_vision_factor =
                         Max(PriorNearFactor(last_params),
                             Add(One, Mul(d, DIOPTRES_SCALING)))

\* mnh = 75 (d = 1.5) with presbyopia at 100: the prior near point 1000
\* exceeds 1000/2.9 and stays, the factor rises above 1
C7_Witness ==
    /\ AfterParams
    /\ MnhActive(last_params) /\ PresbyopiaActive(last_params)
    /\ last_params["myopiahyperopia_mnh"].v = Num(75)
    /\ last_params["presbyopia_near_point"].v = Num(100)
    /\ pso_data.u_near_point = Num(1000)
    /\ Lt(One, pso_data.u_near_vision_factor)

\* C8: after any sequence of update_params calls the optical uniforms are
\* what the last ValueMap produces on a freshly constructed pass, and a
\* second update_params with the same ValueMap changes nothing.
C8_LastMapAlone ==
    AfterParams =>
        /\ Uniforms(pso_data) = Uniforms(UpdateParams(LensNew, last_params))
        /\ UpdateParams(pso_data, last_params) = pso_data

\* a later frame (the depth input still bound from an earlier RgbDepth
\* frame) whose map switches both impairments off
C8_Witness ==
    /\ AfterParams
    /\ device.source.kind = "Rgb"
    /\ pso_data.s_depth[1] = "frame_d"
    /\ ~PresbyopiaActive(last_params) /\ ~MnhActive(last_params)
    /\ pso_data.u_far_point = Inf

\* C9: update_io panics whenever the source is Yuv, and then nothing more
\* runs, so render does not draw in that frame; for Rgb and RgbDepth it does
\* not panic and rebinds the colour input (for RgbDepth the depth input too)
\* to the given source.
C9_UpdateIoVariants ==
    /\ [][pc = "update_io" =>
            CASE device.source.kind = "Yuv" -> pc' = "panicked"
              [] device.source.kind = "Rgb" ->
                    /\ pc' = "update_params"
                    /\ pso_data'.s_color =
                         <<device.source.rgba8, device.source_sampler>>
                    /\ pso_data'.s_depth = pso_data.s_depth
              [] device.source.kind = "RgbDepth" ->
                    /\ pc' = "update_params"
                    /\ pso_data'.s_color =
                         <<device.source.rgba8, device.source_sampler>>
                    /\ pso_data'.s_depth =
                         <<device.source.d, device.source_sampler>>]_vars
    /\ [][pc # "panicked"]_vars
    /\ [](pc = "panicked" => ~drawn)

\* the panic on a Yuv frame that follows an RgbDepth frame
C9_Witness ==
    /\ pc = "panicked"
    /\ device.source.kind = "Yuv"
    /\ pso_data.s_depth[1] = "frame_d"
    /\ ~drawn

\* C10: a region update whose rectangle exceeds the texture or whose byte
\* count does not match the rectangle never returns normally.
C10_ViolationIsFatal ==
    (tex_call.fn # "none" /\ (~tex_call.in_bounds \/ ~tex_call.bytes_match))
        => tex_call.outcome = "panic"

====
